---- MODULE Spec2Model ----
\* A model of github-stats (src/src/main.rs): the commit aggregator
\* (get_data_from_graphql's repository loop, get_all_commit_counts,
\* get_commits_with_dates), the report renderer (display_contribution_graph)
\* and main with its background loading animation.
EXTENDS Integers, Sequences, FiniteSets, TLC

\* ---------------------------------------------------------------- bounds

\* Resolution of the clock: an instant is a tick, TicksPerDay ticks a day.
\* Tick 0 of a day starts at 00:00:00 and the last tick ends at 23:59:59.
TicksPerDay == 2
\* Longest commit log of a repository in the bucket-oriented initial states.
MaxLog == 2
\* Most repositories the activity query returns in the run-oriented initial
\* states (the query asks for five).
MaxRepos == 2
\* Records the commit-listing server puts on one page.
ServerPageLen == 1
\* Requests per repository after which the model stops following a run
\* (never reached by the code: it stops at page_cap requests).
RequestGuard == 7

\* ------------------------------------------------------- program constants

\* line 368: let per_page = 100
per_page == 100
\* line 398: if page > 5 { break; }
page_cap == 5

\* ------------------------------------------------------------ the calendar
\* chrono's NaiveDate, as the number of days since Monday 2024-01-01.

Years == 2024..2026

IsLeap(y) == (y % 4 = 0 /\ y % 100 # 0) \/ y % 400 = 0

DaysInMonth(y, m) ==
    IF m = 2 THEN (IF IsLeap(y) THEN 29 ELSE 28)
    ELSE IF m \in {4, 6, 9, 11} THEN 30 ELSE 31

DaysInYear(y) == IF IsLeap(y) THEN 366 ELSE 365

RECURSIVE DaysBeforeYear(_)
DaysBeforeYear(y) ==
    IF y <= 2024 THEN 0 ELSE DaysBeforeYear(y - 1) + DaysInYear(y - 1)

RECURSIVE DaysBeforeMonth(_, _)
DaysBeforeMonth(y, m) ==
    IF m <= 1 THEN 0 ELSE DaysBeforeMonth(y, m - 1) + DaysInMonth(y, m - 1)

\* NaiveDate::from_ymd
from_ymd(y, m, d) == DaysBeforeYear(y) + DaysBeforeMonth(y, m) + d - 1

year(n) == CHOOSE y \in Years : DaysBeforeYear(y) <= n /\ n < DaysBeforeYear(y + 1)

ordinal0(n) == n - DaysBeforeYear(year(n))

month(n) ==
    CHOOSE m \in 1..12 :
        /\ DaysBeforeMonth(year(n), m) <= ordinal0(n)
        /\ ordinal0(n) < DaysBeforeMonth(year(n), m) + DaysInMonth(year(n), m)

day(n) == ordinal0(n) - DaysBeforeMonth(year(n), month(n)) + 1

\* today.weekday().num_days_from_monday()
num_days_from_monday(n) == n % 7

\* today.with_day(1)
with_day_1(n) == from_ymd(year(n), month(n), 1)

\* today.with_ordinal(1)
with_ordinal_1(n) == from_ymd(year(n), 1, 1)

\* A date string "YYYY-MM-DD" is the record of its three numbers; a
\* timestamp string "YYYY-MM-DDTHH:MM:SSZ" adds the tick of the day.
ValidDate(s) ==
    /\ s.y \in Years
    /\ s.m \in 1..12
    /\ s.d \in 1..DaysInMonth(s.y, s.m)

\* NaiveDate::parse_from_str(s, "%Y-%m-%d")
parse_from_str(s) ==
    IF ValidDate(s) THEN [ok |-> TRUE, date |-> from_ymd(s.y, s.m, s.d)]
    ELSE [ok |-> FALSE, date |-> 0]

\* chrono::DateTime::parse_from_rfc3339(s), converted to UTC
parse_from_rfc3339(s) ==
    IF ValidDate(s) /\ s.t \in 0..(TicksPerDay - 1)
    THEN [ok |-> TRUE, at |-> from_ymd(s.y, s.m, s.d) * TicksPerDay + s.t]
    ELSE [ok |-> FALSE, at |-> 0]

\* instant.format("%Y-%m-%dT%H:%M:%SZ")
format_utc(i) ==
    LET n == i \div TicksPerDay
    IN [y |-> year(n), m |-> month(n), d |-> day(n), t |-> i % TicksPerDay]

\* chrono::Local.from_local_datetime(..).with_timezone(&Utc): the local zone
\* is offset ticks east of UTC.
local_to_utc(date, tick, offset) == date * TicksPerDay + tick - offset

\* ------------------------------------------------------------------ state

VARIABLES
    today,              \* chrono::Local::now().date_naive()
    tz,                 \* the local zone's offset east of UTC, in ticks
    now_tick,           \* the tick of the local day at which the clock is read
    username,           \* GitHubClient.username
    store,              \* commit-listing server: full name -> the commits of the repository
    server,             \* commit-listing server: full name -> how it pages
    nodes,              \* user_data.repositories.nodes
    pc,                 \* position of the foreground task
    repo_idx,           \* index into nodes of the repository being aggregated
    page,               \* get_commits_with_dates: page
    all_commits,        \* get_commits_with_dates: all_commits
    since,              \* get_commits_with_dates: since
    until,              \* get_commits_with_dates: until
    repos_with_commits, \* get_data_from_graphql: repos_with_commits
    responses,          \* history: the responses to this repository's requests
    received,           \* history: the records of this repository's successful pages
    audit,              \* history: responses and received of every finished repository
    activity,           \* activity server: the calendar and repositories of the user
    format,             \* cli.format
    user,               \* get_stats: user.login
    contribution_graph, \* get_data_from_graphql: contribution_graph
    stats_result,       \* main: stats_result
    user_outcome,       \* history: how the user lookup ended
    graphql_outcome,    \* history: how the activity request ended
    anim_pc,            \* position of the task running show_loading_animation
    abort_requested,    \* loading_handle.abort() was called while the task was being polled
    frame_idx,          \* show_loading_animation: frame_idx
    out,                \* history: the writes to the terminal, in order
    aborted_at,         \* history: the length of out when the animation was aborted
    labels,             \* display_contribution_graph: the month labels printed
    heatmap,            \* display_contribution_graph: the rows of cells printed
    buckets,            \* display_contribution_graph: the five aggregates
    comparison,         \* display_contribution_graph: comparison
    raw_mode,           \* the terminal is in raw mode
    exit_code,          \* the exit status of the process
    last_event,         \* history: what the last pass of the key loop got
    disable_called      \* history: terminal::disable_raw_mode() was called

env_vars == <<today, tz, now_tick, username, store, server, activity, format>>
agg_vars == <<nodes, repo_idx, page, all_commits, since, until,
              repos_with_commits, responses, received, audit>>
data_vars == <<user, contribution_graph, user_outcome, graphql_outcome>>
anim_vars == <<anim_pc, abort_requested, frame_idx>>
disp_vars == <<labels, heatmap, buckets, comparison>>
end_vars == <<raw_mode, exit_code, last_event, disable_called>>
vars == <<env_vars, agg_vars, data_vars, stats_result, anim_vars, out, aborted_at,
          disp_vars, end_vars, pc>>
\* What the aggregation of a repository leaves alone.
agg_frame == <<env_vars, nodes, data_vars, anim_vars, out, aborted_at, disp_vars, end_vars>>

\* ------------------------------------------------ the commit-listing server
\* A commit of a repository: the platform identity it is attributed to ("-"
\* when there is none), the instant the server files it under, and the state
\* of the authoring timestamp the record exposes: that instant ("ok"), an
\* instant two days before or after it ("earlier", "later": the commit was
\* authored at one time and filed at another), a string that is no
\* timestamp ("malformed"), or none ("missing").

Min(a, b) == IF a <= b THEN a ELSE b

\* line 302: format!("{}/{}", repo.owner.login, repo.name)
full_name_of(repo) == <<repo.owner, "/", repo.name>>

\* The JSON record the server returns for a commit.
expose(c) ==
    [ has_author |-> c.login # "-",
      login      |-> c.login,
      has_date   |-> c.date_kind # "missing",
      date       |-> IF c.date_kind = "malformed"
                     THEN [format_utc(c.at) EXCEPT !.m = 13]
                     ELSE IF c.date_kind = "earlier"
                     THEN format_utc(c.at - 2 * TicksPerDay)
                     ELSE IF c.date_kind = "later"
                     THEN format_utc(c.at + 2 * TicksPerDay)
                     ELSE format_utc(c.at) ]

\* The records of the repository within [since, until].
listing(req) ==
    LET lo == parse_from_rfc3339(req.since)
        hi == parse_from_rfc3339(req.until)
        hit == SelectSeq(store[req.repo],
                         LAMBDA c : lo.ok /\ hi.ok /\ lo.at <= c.at /\ c.at <= hi.at)
    IN [i \in 1..Len(hit) |-> expose(hit[i])]

\* The page a successful response carries. A "paged" server serves the
\* requested page; a "same_page" server ignores the page number and serves
\* its first page to every request.
serve_page(req) ==
    LET all == listing(req)
        len == Min(req.per_page, ServerPageLen)
        first == IF server[req.repo] = "paged" THEN (req.page - 1) * len ELSE 0
    IN SubSeq(all, first + 1, Min(first + len, Len(all)))

\* lines 371-374: the request of the current page
request ==
    [ repo |-> full_name_of(nodes[repo_idx]), since |-> since, until |-> until,
      page |-> page, per_page |-> per_page ]

\* --------------------------------------------------- get_all_commit_counts

\* line 322
today_start(date, offset) == local_to_utc(date, 0, offset)
\* line 323
today_end(date, offset) == local_to_utc(date, TicksPerDay - 1, offset)
\* lines 326 and 531
week_start_date(date) == date - num_days_from_monday(date)
\* line 327
week_start(date, offset) == local_to_utc(week_start_date(date), 0, offset)
\* lines 330-331
month_start(date, offset) == local_to_utc(with_day_1(date), 0, offset)

\* lines 344-348: the commit's authoring timestamp, when it has one that parses
commit_date(commit) ==
    IF commit.has_date THEN parse_from_rfc3339(commit.date)
    ELSE [ok |-> FALSE, at |-> 0]

\* line 352
in_today(at, date, offset) ==
    at >= today_start(date, offset) /\ at <= today_end(date, offset)
\* A slip: the week ends where today starts.
in_week_before_today(at, date, offset) ==
    at >= week_start(date, offset) /\ at < today_start(date, offset)

\* line 355
in_week(at, date, offset) ==
    at >= week_start(date, offset) /\ at <= today_end(date, offset)

\* lines 339-359: <<today_count, week_count>> after the loop over commits
RECURSIVE bucket_loop(_, _, _)
bucket_loop(commits, date, offset) ==
    IF commits = <<>> THEN <<0, 0>>
    ELSE LET rest == bucket_loop(Tail(commits), date, offset)
             d == commit_date(Head(commits))
         IN << rest[1] + (IF d.ok /\ in_today(d.at, date, offset) THEN 1 ELSE 0),
               rest[2] + (IF d.ok /\ in_week(d.at, date, offset) THEN 1 ELSE 0) >>

\* A slip: month_count counted inside the if-let, with the parsed dates only.
all_commit_counts_dated_only(fetched, date, offset) ==
    IF ~fetched.ok THEN [ok |-> FALSE, counts |-> <<0, 0, 0>>]
    ELSE LET b == bucket_loop(fetched.commits, date, offset)
         IN [ok |-> TRUE,
             counts |-> <<b[1], b[2],
                          Cardinality({k \in 1..Len(fetched.commits) :
                                          commit_date(fetched.commits[k]).ok})>>]

\* lines 336-361: fetched is the Result of get_commits_with_dates
all_commit_counts(fetched, date, offset) ==
    IF ~fetched.ok THEN [ok |-> FALSE, counts |-> <<0, 0, 0>>]
    ELSE LET b == bucket_loop(fetched.commits, date, offset)
         IN [ok |-> TRUE, counts |-> <<b[1], b[2], Len(fetched.commits)>>]

\* line 303: .unwrap_or((0, 0, 0))
unwrap_or(res, dflt) == IF res.ok THEN res.counts ELSE dflt

\* A slip: any attributed commit passes the filter.
user_commits_any_author(commits, name) ==
    SelectSeq(commits, LAMBDA commit : commit.has_author)

\* lines 385-392: the commits of the page attributed to the user
user_commits(commits, name) ==
    SelectSeq(commits, LAMBDA commit : commit.has_author /\ commit.login = name)

\* A slip: no limit on the pages.
page_limit_never(p) == FALSE

\* line 398
page_limit_reached(p) == p > page_cap

\* ------------------------------------- get_data_from_graphql: the calendar

\* lines 416-420
empty_graph == [weeks |-> <<>>, total_contributions |-> 0]

\* lines 275-282
level_of(contribution_level) ==
    CASE contribution_level = "NONE" -> 0
      [] contribution_level = "FIRST_QUARTILE" -> 1
      [] contribution_level = "SECOND_QUARTILE" -> 2
      [] contribution_level = "THIRD_QUARTILE" -> 3
      [] contribution_level = "FOURTH_QUARTILE" -> 4
      [] OTHER -> 0

\* lines 284-288
build_day(graphql_day) ==
    [ date  |-> graphql_day.date,
      count |-> graphql_day.contribution_count,
      level |-> level_of(graphql_day.contribution_level) ]

\* A slip: a day whose date does not parse is left out of the week.
build_week_skipping(graphql_week) ==
    LET kept == SelectSeq(graphql_week, LAMBDA d : parse_from_str(d.date).ok)
    IN [days |-> [i \in 1..Len(kept) |-> build_day(kept[i])]]

\* lines 272-291
build_week(graphql_week) ==
    [days |-> [i \in 1..Len(graphql_week) |-> build_day(graphql_week[i])]]

\* lines 269-297
build_graph(calendar) ==
    [ weeks |-> [w \in 1..Len(calendar.weeks) |-> build_week(calendar.weeks[w])],
      total_contributions |-> calendar.total_contributions ]

\* ---------------------------------------------- display_contribution_graph

\* line 481
months ==
    << "Jan", "Feb", "Mar", "Apr", "May", "Jun",
       "Jul", "Aug", "Sep", "Oct", "Nov", "Dec" >>

\* line 485: Utc::now().month0()
current_month(date, tick, offset) ==
    month(local_to_utc(date, tick, offset) \div TicksPerDay) - 1

\* A slip: the labels start at the current month.
start_month_unrotated(cur) == cur % 12

\* line 486
start_month(cur) == (cur + 1) % 12

\* A slip: the labels are printed whether or not the grid has a week.
month_labels_unguarded(total_weeks, cur) ==
    [k \in 1..12 |-> months[((start_month(cur) + (k - 1)) % 12) + 1]]

\* lines 484-500: the labels printed above the grid
month_labels(total_weeks, cur) ==
    IF total_weeks > 0
    THEN [k \in 1..12 |-> months[((start_month(cur) + (k - 1)) % 12) + 1]]
    ELSE <<>>

\* lines 506-525: the seven rows printed, a level per week (-1 where the week
\* has no day at that position, printed as an uncoloured square)
heatmap_rows(weeks) ==
    [ day_of_week \in 0..6 |->
        [ w \in 1..Len(weeks) |->
            IF day_of_week < Len(weeks[w].days)
            THEN weeks[w].days[day_of_week + 1].level
            ELSE -1 ] ]

\* line 531
this_week_start(date) == week_start_date(date)
\* line 532
last_week_start(date) == this_week_start(date) - 7

\* A slip: last week ends on the day this week starts.
last_week_end_overlapping(date) == this_week_start(date)

\* line 533
last_week_end(date) == this_week_start(date) - 1
\* line 534
this_month_start(date) == with_day_1(date)
\* line 535
this_year_start(date) == with_ordinal_1(date)

\* lines 537-541
zero_buckets ==
    [today |-> 0, this_week |-> 0, last_week |-> 0, this_month |-> 0, this_year |-> 0]

\* lines 545-561: the aggregates after one day cell
bucket_day(b, d, date) ==
    LET parsed == parse_from_str(d.date)
        day_date == parsed.date
    IN IF ~parsed.ok THEN b
       ELSE [ today      |-> IF day_date = date THEN d.count ELSE b.today,
              this_week  |-> b.this_week
                             + (IF day_date >= this_week_start(date) THEN d.count ELSE 0),
              last_week  |-> b.last_week
                             + (IF /\ day_date >= last_week_start(date)
                                   /\ day_date <= last_week_end(date)
                                THEN d.count ELSE 0),
              this_month |-> b.this_month
                             + (IF day_date >= this_month_start(date) THEN d.count ELSE 0),
              this_year  |-> b.this_year
                             + (IF day_date >= this_year_start(date) THEN d.count ELSE 0) ]

\* line 544: the aggregates after the days of one week, from the k-th on
RECURSIVE bucket_days(_, _, _, _)
bucket_days(b, days, k, date) ==
    IF k > Len(days) THEN b
    ELSE bucket_days(bucket_day(b, days[k], date), days, k + 1, date)

\* lines 543-563: the aggregates after the weeks, from the w-th on
RECURSIVE bucket_weeks(_, _, _, _)
bucket_weeks(b, weeks, w, date) ==
    IF w > Len(weeks) THEN b
    ELSE bucket_weeks(bucket_days(b, weeks[w].days, 1, date), weeks, w + 1, date)

\* lines 566-573
compare_weeks(b) ==
    LET week_diff == b.this_week - b.last_week
    IN IF week_diff > 0 THEN "more than last week"
       ELSE IF week_diff < 0 THEN "less than last week"
       ELSE "same as last week"

\* ------------------------------------------ get_data_from_graphql: the loop

\* lines 302, 321-336, 366-368: the next repository, up to its first request
BeginRepo(i) ==
    /\ repo_idx' = i
    /\ page' = 1
    /\ all_commits' = <<>>
    /\ since' = format_utc(month_start(today, tz))
    /\ until' = format_utc(today_end(today, tz))
    /\ responses' = <<>>
    /\ received' = <<>>
    /\ pc' = "fetch"
    /\ UNCHANGED stats_result

\* A slip: the failure of the activity request is returned.
generate_data_propagating(data) == data

\* lines 412-425: generate_data; data is the Result of get_data_from_graphql
generate_data(data) ==
    IF data.ok THEN data
    ELSE [ok |-> TRUE, graph |-> empty_graph, repos |-> <<>>]

\* lines 428-437: get_stats, once get_user has succeeded with login
get_stats(login, data) ==
    [ ok                 |-> data.ok,
      error              |-> IF data.ok THEN "" ELSE "data",
      username           |-> login,
      contribution_graph |-> data.graph,
      recent_repos       |-> data.repos ]

\* get_stats returns result to main (line 676)
Acquired(result) ==
    /\ stats_result' = result
    /\ pc' = "returned"

\* line 314: Ok((contribution_graph, repos_with_commits)), through
\* generate_data and get_stats
ReturnData ==
    /\ Acquired(get_stats(user, generate_data([ ok    |-> TRUE,
                                                graph |-> contribution_graph',
                                                repos |-> repos_with_commits' ])))
    /\ responses' = <<>>
    /\ received' = <<>>
    /\ UNCHANGED <<repo_idx, page, all_commits, since, until>>

\* lines 303-312: get_commits_with_dates has returned fetched; the record of
\* the repository is pushed and the loop goes on
EndRepo(fetched, response, records) ==
    LET repo == nodes[repo_idx]
        counts == unwrap_or(all_commit_counts(fetched, today, tz), <<0, 0, 0>>)
        rec == [ name          |-> repo.name,
                 full_name     |-> full_name_of(repo),
                 pushed_at     |-> repo.pushed_at,
                 today_commits |-> counts[1],
                 week_commits  |-> counts[2],
                 month_commits |-> counts[3] ]
    IN /\ repos_with_commits' = Append(repos_with_commits, rec)
       /\ audit' = Append(audit, [ responses |-> Append(responses, response),
                                   received  |-> received \o records,
                                   ok        |-> fetched.ok ])
       /\ IF repo_idx < Len(nodes) THEN BeginRepo(repo_idx + 1) ELSE ReturnData

\* A slip: the transport error is returned and ends get_data_from_graphql.
SendFailedPropagates ==
    /\ pc = "fetch"
    /\ Len(responses) < RequestGuard
    /\ UNCHANGED <<agg_frame, repos_with_commits>>
    /\ audit' = Append(audit, [ responses |-> Append(responses, "send_err"),
                                received  |-> received,
                                ok        |-> FALSE ])
    /\ ReturnData

\* line 405: Err(_) => break
SendFailed ==
    /\ pc = "fetch"
    /\ Len(responses) < RequestGuard
    /\ UNCHANGED agg_frame
    /\ EndRepo([ok |-> TRUE, commits |-> all_commits], "send_err", <<>>)

\* lines 401-403: a response whose status is not a success
StatusNotSuccess ==
    /\ pc = "fetch"
    /\ Len(responses) < RequestGuard
    /\ UNCHANGED agg_frame
    /\ EndRepo([ok |-> TRUE, commits |-> all_commits], "bad_status", <<>>)

\* A slip: the body that does not parse ends the loop like a transport error.
BodyNotJsonBreaks ==
    /\ pc = "fetch"
    /\ Len(responses) < RequestGuard
    /\ UNCHANGED agg_frame
    /\ EndRepo([ok |-> TRUE, commits |-> all_commits], "bad_body", <<>>)

\* line 379: response.json().await? on a body that is no list of records
BodyNotJson ==
    /\ pc = "fetch"
    /\ Len(responses) < RequestGuard
    /\ UNCHANGED agg_frame
    /\ EndRepo([ok |-> FALSE, commits |-> <<>>], "bad_body", <<>>)

\* lines 378-400: a successful response with its page of records
PageReceived ==
    /\ pc = "fetch"
    /\ Len(responses) < RequestGuard
    /\ UNCHANGED agg_frame
    /\ LET commits == serve_page(request)
           extended == all_commits \o user_commits(commits, username)
       IN IF commits = <<>>
          THEN EndRepo([ok |-> TRUE, commits |-> all_commits], "empty", <<>>)
          ELSE IF page_limit_reached(page + 1)
          THEN EndRepo([ok |-> TRUE, commits |-> extended], "page", commits)
          ELSE /\ all_commits' = extended
               /\ page' = page + 1
               /\ responses' = Append(responses, "page")
               /\ received' = received \o commits
               /\ UNCHANGED <<repo_idx, since, until, repos_with_commits, audit, pc,
                              stats_result>>

\* ------------------------------------------------------------- get_stats

\* The Err that get_user's failure makes of get_stats (line 429)
user_error(kind) ==
    [ ok |-> FALSE, error |-> kind, username |-> "",
      contribution_graph |-> empty_graph, recent_repos |-> <<>> ]

\* What the user lookup leaves alone.
user_frame == <<env_vars, agg_vars, anim_vars, out, aborted_at, disp_vars, end_vars>>

\* line 201: the request of the user fails in transport
UserSendFailed ==
    /\ pc = "get_user"
    /\ user_outcome' = "send_err"
    /\ Acquired(user_error("send_err"))
    /\ UNCHANGED <<user_frame, user, contribution_graph, graphql_outcome>>

\* lines 203-205: status 404
UserNotFound ==
    /\ pc = "get_user"
    /\ user_outcome' = "not_found"
    /\ Acquired(user_error("not_found"))
    /\ UNCHANGED <<user_frame, user, contribution_graph, graphql_outcome>>

\* line 207: the body is no user record
UserBodyNotJson ==
    /\ pc = "get_user"
    /\ user_outcome' = "bad_body"
    /\ Acquired(user_error("bad_body"))
    /\ UNCHANGED <<user_frame, user, contribution_graph, graphql_outcome>>

\* lines 207-208 and 254-258: the user is found and the activity is requested
UserFound ==
    /\ pc = "get_user"
    /\ user_outcome' = "ok"
    /\ user' = activity.login
    /\ pc' = "graphql"
    /\ UNCHANGED <<user_frame, contribution_graph, graphql_outcome, stats_result>>

\* The activity request has failed: get_data_from_graphql returns an Err.
ActivityFailed(kind) ==
    /\ pc = "graphql"
    /\ graphql_outcome' = kind
    /\ Acquired(get_stats(user, generate_data([ ok    |-> FALSE,
                                                graph |-> empty_graph,
                                                repos |-> <<>> ])))
    /\ UNCHANGED <<env_vars, agg_vars, anim_vars, out, aborted_at, disp_vars, end_vars,
                   user, contribution_graph, user_outcome>>

\* line 258: the activity request fails in transport
GraphqlSendFailed == ActivityFailed("send_err")

\* lines 260-262: a status that is not a success
GraphqlStatusNotSuccess == ActivityFailed("bad_status")

\* line 264: the body is no activity record
GraphqlBodyNotJson == ActivityFailed("bad_body")

\* lines 264-302: the activity arrives, the graph is built and the loop
\* over the repositories starts
GraphqlOk ==
    /\ pc = "graphql"
    /\ graphql_outcome' = "ok"
    /\ contribution_graph' = build_graph(activity.calendar)
    /\ nodes' = activity.nodes
    /\ repos_with_commits' = <<>>
    /\ audit' = <<>>
    /\ UNCHANGED <<env_vars, anim_vars, out, aborted_at, disp_vars, end_vars, user,
                   user_outcome>>
    /\ IF activity.nodes = <<>> THEN ReturnData ELSE BeginRepo(1)

\* ------------------------------------------------------------------ main

\* line 15: SPINNER_FRAMES.len()
spinner_frames == 10

\* Writes of the animation after which the model stops waking it.
MaxAnimWrites == 4

Written(tag) == Cardinality({k \in 1..Len(out) : out[k] = tag})

\* The process has not ended.
Running == pc \notin {"done", "exited"}

\* What the foreground steps of main leave alone.
main_frame == <<env_vars, agg_vars, data_vars, stats_result>>

\* line 673: tokio::spawn(show_loading_animation())
Spawn ==
    /\ pc = "spawn"
    /\ anim_pc' = "scheduled"
    /\ pc' = "get_user"
    /\ UNCHANGED <<main_frame, aborted_at, abort_requested, frame_idx, out, disp_vars, end_vars>>

\* line 679: loading_handle.abort(). A task that is not being polled never
\* runs again; one that is being polled is dropped when its poll returns.
Abort ==
    /\ pc = "returned"
    /\ pc' = "reset"
    /\ IF anim_pc \in {"scheduled", "sleeping"}
       THEN anim_pc' = "cancelled" /\ UNCHANGED abort_requested
       ELSE abort_requested' = TRUE /\ UNCHANGED anim_pc
    /\ aborted_at' = Len(out)
    /\ UNCHANGED <<main_frame, frame_idx, out, disp_vars, end_vars>>

\* lines 680-681: the screen is cleared
ResetScreen ==
    /\ pc = "reset"
    /\ out' = Append(out, "reset")
    /\ pc' = "emit"
    /\ UNCHANGED <<main_frame, aborted_at, anim_vars, disp_vars, end_vars>>

\* lines 686-688: the report as JSON
EmitJson ==
    /\ pc = "emit"
    /\ stats_result.ok
    /\ format = "json"
    /\ out' = Append(out, "json")
    /\ exit_code' = 0
    /\ pc' = "done"
    /\ UNCHANGED <<main_frame, aborted_at, anim_vars, disp_vars, raw_mode, last_event, disable_called>>

\* lines 689-690 and 476-642: display_contribution_graph
EmitReport ==
    /\ pc = "emit"
    /\ stats_result.ok
    /\ format # "json"
    /\ LET weeks == stats_result.contribution_graph.weeks
           b == bucket_weeks(zero_buckets, weeks, 1, today)
       IN /\ labels' = month_labels(Len(weeks), current_month(today, now_tick, tz))
          /\ heatmap' = heatmap_rows(weeks)
          /\ buckets' = b
          /\ comparison' = compare_weeks(b)
    /\ out' = Append(out, "report")
    /\ pc' = "raw"
    /\ UNCHANGED <<main_frame, aborted_at, anim_vars, end_vars>>

\* lines 725-728: the error is printed and the process exits with 1
EmitError ==
    /\ pc = "emit"
    /\ ~stats_result.ok
    /\ out' = Append(out, "error")
    /\ exit_code' = 1
    /\ pc' = "exited"
    /\ UNCHANGED <<main_frame, aborted_at, anim_vars, disp_vars, raw_mode, last_event, disable_called>>

\* lines 693-696: raw mode is enabled and the prompt printed
EnableRawMode ==
    /\ pc = "raw"
    /\ raw_mode' = TRUE
    /\ out' = Append(out, "prompt")
    /\ pc' = "poll"
    /\ UNCHANGED <<main_frame, aborted_at, anim_vars, disp_vars, exit_code, last_event, disable_called>>

\* line 693: enable_raw_mode()? fails and main returns the error
EnableRawModeFailed ==
    /\ pc = "raw"
    /\ exit_code' = 1
    /\ pc' = "done"
    /\ UNCHANGED <<main_frame, aborted_at, anim_vars, out, disp_vars, raw_mode,
                   last_event, disable_called>>

\* The events event::read can return: a key with its kind and whether
\* Control is held, or an event that is no key.
QuitKeys == {"q", "Q", "Esc"}
Events ==
    [is_key : {TRUE}, code : {"q", "Q", "c", "Esc", "x"},
     kind : {"Press", "Release"}, control : BOOLEAN]
        \cup [is_key : {FALSE}, code : {"resize"}, kind : {"Press"}, control : {FALSE}]

\* line 700: event::poll returned Ok(false), there is no event to read
NoEvent == [is_key |-> FALSE, code |-> "none", kind |-> "Press", control |-> FALSE]

\* lines 700-701: event::poll or event::read returned Err
IoError == [is_key |-> FALSE, code |-> "io_error", kind |-> "Press", control |-> FALSE]

\* lines 701-714: the event ends the loop
quits(ev) ==
    /\ ev.is_key
    /\ ev.kind = "Press"
    /\ \/ ev.code \in QuitKeys
       \/ ev.code = "c" /\ ev.control

\* lines 700-718: no event within the interval, or one that is ignored
PollIgnored ==
    /\ pc = "poll"
    /\ \E ev \in Events \cup {NoEvent} :
        /\ ~quits(ev)
        /\ last_event' = ev
    /\ UNCHANGED <<main_frame, aborted_at, anim_vars, out, disp_vars, raw_mode,
                   exit_code, disable_called, pc>>

\* lines 700-701: event::poll or event::read fails and main returns the error
PollFailed ==
    /\ pc = "poll"
    /\ last_event' = IoError
    /\ exit_code' = 1
    /\ pc' = "done"
    /\ UNCHANGED <<main_frame, aborted_at, anim_vars, out, disp_vars, raw_mode,
                   disable_called>>

\* lines 704-712, 721, 731: a key that ends the loop; raw mode is disabled
PollQuit ==
    /\ pc = "poll"
    /\ \E ev \in Events :
        /\ quits(ev)
        /\ last_event' = ev
    /\ disable_called' = TRUE
    /\ raw_mode' = FALSE
    /\ exit_code' = 0
    /\ pc' = "done"
    /\ UNCHANGED <<main_frame, aborted_at, anim_vars, out, disp_vars>>

\* line 721: disable_raw_mode()? fails after a key that ends the loop
PollQuitDisableFailed ==
    /\ pc = "poll"
    /\ \E ev \in Events :
        /\ quits(ev)
        /\ last_event' = ev
    /\ disable_called' = TRUE
    /\ exit_code' = 1
    /\ pc' = "done"
    /\ UNCHANGED <<main_frame, aborted_at, anim_vars, out, disp_vars, raw_mode>>

\* ------------------------------------------------- show_loading_animation
\* The task runs on a worker thread of the runtime (#[tokio::main], line
\* 646): a poll of it, from one await to the next, interleaves with main.

anim_frame == <<env_vars, agg_vars, data_vars, stats_result, aborted_at,
                disp_vars, end_vars, pc>>

\* The first poll of the task begins.
AnimStart ==
    /\ Running
    /\ anim_pc = "scheduled"
    /\ anim_pc' = "banner"
    /\ UNCHANGED <<anim_frame, abort_requested, frame_idx, out>>

\* lines 445-460: the placeholder graph is printed
AnimBanner ==
    /\ Running
    /\ anim_pc = "banner"
    /\ out' = Append(out, "anim")
    /\ anim_pc' = "loading"
    /\ UNCHANGED <<anim_frame, abort_requested, frame_idx>>

\* lines 462-464: the loading line is printed
AnimLoading ==
    /\ Running
    /\ anim_pc = "loading"
    /\ out' = Append(out, "anim")
    /\ anim_pc' = "frame"
    /\ UNCHANGED <<anim_frame, abort_requested, frame_idx>>

\* lines 468-472: a frame of the spinner is printed and the task sleeps; the
\* poll returns, and the task is dropped if it was aborted meanwhile
AnimFrame ==
    /\ Running
    /\ anim_pc = "frame"
    /\ out' = Append(out, "anim")
    /\ frame_idx' = (frame_idx + 1) % spinner_frames
    /\ anim_pc' = IF abort_requested THEN "cancelled" ELSE "sleeping"
    /\ UNCHANGED <<anim_frame, abort_requested>>

\* line 472: the sleep is over and the task is polled again
AnimWake ==
    /\ Running
    /\ anim_pc = "sleeping"
    /\ Written("anim") < MaxAnimWrites
    /\ anim_pc' = "frame"
    /\ UNCHANGED <<anim_frame, abort_requested, frame_idx, out>>

\* ------------------------------------------- initial states: the aggregator

Logins == {"me", "other", "-"}
DateKinds == {"ok", "malformed", "missing"}
ServerKinds == {"paged", "same_page"}

\* Monday 2024-12-30 and Wednesday 2025-01-01: the week of the second starts
\* in the previous month.
AggTodays == {from_ymd(2024, 12, 30), from_ymd(2025, 1, 1)}
TzOffsets == {0, 1}

\* From the tick before Monday's local midnight to the tick after the end of
\* Wednesday.
AggInstants ==
    (from_ymd(2024, 12, 29) * TicksPerDay)..(from_ymd(2025, 1, 2) * TicksPerDay)

\* The authoring timestamp is read of the user's commits alone (line 385
\* filters first), so the commits of others carry a well-formed one.
StoreCommits ==
    [login : {"me"}, at : AggInstants, date_kind : DateKinds]
        \cup [login : Logins \ {"me"}, at : AggInstants, date_kind : {"ok"}]

SeqsUpTo(S, n) == UNION {[1..k -> S] : k \in 0..n}

Repo(i) == [name |-> i, owner |-> "me", pushed_at |-> format_utc(0)]

\* The animation has printed its first frame and sleeps.
AnimAsleep ==
    /\ anim_pc = "sleeping"
    /\ abort_requested = FALSE
    /\ frame_idx = 1
    /\ out = <<"anim", "anim", "anim">>

\* Nothing is acquired, displayed or ended yet.
NothingYet ==
    /\ stats_result = user_error("pending")
    /\ aborted_at = -1
    /\ labels = <<>>
    /\ heatmap = [day_of_week \in 0..6 |-> <<>>]
    /\ buckets = zero_buckets
    /\ comparison = ""
    /\ raw_mode = FALSE
    /\ exit_code = -1
    /\ last_event = NoEvent
    /\ disable_called = FALSE

NoCalendar == [weeks |-> <<>>, total_contributions |-> 0]

\* The aggregation is at the first request of the first repository: the
\* user is found and the activity has arrived, with an empty calendar.
InitAggCommon ==
    /\ username = "me"
    /\ now_tick = 0
    /\ format = "text"
    /\ activity = [login |-> "me", calendar |-> NoCalendar, nodes |-> nodes]
    /\ user = "me"
    /\ user_outcome = "ok"
    /\ graphql_outcome = "ok"
    /\ contribution_graph = empty_graph
    /\ AnimAsleep
    /\ NothingYet
    /\ repos_with_commits = <<>>
    /\ audit = <<>>
    /\ responses = <<>>
    /\ received = <<>>
    /\ all_commits = <<>>
    /\ page = 1
    /\ since = format_utc(month_start(today, tz))
    /\ until = format_utc(today_end(today, tz))
    /\ repo_idx = 1
    /\ nodes # <<>>
    /\ pc = "fetch"

\* One repository, every log of at most MaxLog commits, a paged server.
InitBuckets ==
    /\ today \in AggTodays
    /\ tz \in TzOffsets
    /\ nodes = <<Repo(1)>>
    /\ store \in [{full_name_of(Repo(1))} -> SeqsUpTo(StoreCommits, MaxLog)]
    /\ server = [f \in {full_name_of(Repo(1))} |-> "paged"]
    /\ InitAggCommon

\* The user's commits of the last tick of today.
RunLogs ==
    LET c == [login |-> "me", at |-> today_end(from_ymd(2025, 1, 1), 0), date_kind |-> "ok"]
    IN {<<>>, <<c>>, <<c, c>>}

\* Up to MaxRepos repositories, each with none, one or two commits of the
\* user today, behind a server of either kind.
InitRepos ==
    /\ today = from_ymd(2025, 1, 1)
    /\ tz = 0
    /\ \E n \in 1..MaxRepos :
        /\ nodes = [i \in 1..n |-> Repo(i)]
        /\ store \in [{full_name_of(Repo(i)) : i \in 1..n} -> RunLogs]
        /\ server \in [{full_name_of(Repo(i)) : i \in 1..n} -> ServerKinds]
    /\ InitAggCommon

InitAgg == InitBuckets \/ InitRepos

NextAgg == SendFailed \/ StatusNotSuccess \/ BodyNotJson \/ PageReceived

SpecAgg == InitAgg /\ [][NextAgg]_vars

\* ------------------------------- initial states: timestamps of every kind

\* The first and the last tick of Monday 2024-12-30 and of Wednesday
\* 2025-01-01, in UTC.
StrayInstants ==
    UNION {{today_start(d, 0), today_end(d, 0)} : d \in AggTodays}

\* Commits of the user whose authoring timestamp is of any kind.
StrayCommits ==
    [ login : {"me"}, at : StrayInstants,
      date_kind : DateKinds \cup {"earlier", "later"} ]

\* One repository behind a paged server, every log of at most MaxLog such
\* commits.
InitCounts ==
    /\ today \in AggTodays
    /\ tz \in TzOffsets
    /\ nodes = <<Repo(1)>>
    /\ store \in [{full_name_of(Repo(1))} -> SeqsUpTo(StrayCommits, MaxLog)]
    /\ server = [f \in {full_name_of(Repo(1))} |-> "paged"]
    /\ InitAggCommon

SpecCounts == InitCounts /\ [][NextAgg]_vars

\* --------------------------------------------- initial states: the display

\* The week from Monday 2024-12-30 to Sunday 2025-01-05 holds the start of
\* a month and of a year.
DisplayTodays == {from_ymd(2024, 12, 30), from_ymd(2025, 1, 1), from_ymd(2025, 1, 5)}

\* The day before last week, the two ends of last week, the Monday, the
\* first of January and the Sunday of this week, and a date that is none.
DateStrings ==
    { [y |-> 2024, m |-> 12, d |-> 22], [y |-> 2024, m |-> 12, d |-> 23],
      [y |-> 2024, m |-> 12, d |-> 29], [y |-> 2024, m |-> 12, d |-> 30],
      [y |-> 2025, m |-> 1, d |-> 1],   [y |-> 2025, m |-> 1, d |-> 5],
      [y |-> 2025, m |-> 2, d |-> 30] }

RawDays ==
    [date : DateStrings, contribution_count : {1}, contribution_level : {"FIRST_QUARTILE"}]
        \cup [ date : {[y |-> 2024, m |-> 12, d |-> 29], [y |-> 2025, m |-> 1, d |-> 1]},
               contribution_count : {2}, contribution_level : {"SECOND_QUARTILE"} ]

Levels ==
    { "NONE", "FIRST_QUARTILE", "SECOND_QUARTILE", "THIRD_QUARTILE",
      "FOURTH_QUARTILE", "UNKNOWN" }

\* Longest week row and longest calendar of the display-oriented initial states.
MaxDays == 2
MaxWeeks == 2

Calendars ==
    [ weeks : SeqsUpTo(SeqsUpTo(RawDays, MaxDays), MaxWeeks),
      total_contributions : {3} ]

\* The user is found, the activity request is in flight, and the user has
\* no repositories.
InitDisplayCommon ==
    /\ username = "me"
    /\ format = "text"
    /\ store = <<>>
    /\ server = <<>>
    /\ nodes = <<>>
    /\ repo_idx = 1
    /\ page = 1
    /\ all_commits = <<>>
    /\ since = format_utc(0)
    /\ until = format_utc(0)
    /\ repos_with_commits = <<>>
    /\ responses = <<>>
    /\ received = <<>>
    /\ audit = <<>>
    /\ user = "me"
    /\ user_outcome = "ok"
    /\ graphql_outcome = "none"
    /\ contribution_graph = empty_graph
    /\ AnimAsleep
    /\ NothingYet
    /\ pc = "graphql"

\* Every calendar of at most MaxWeeks weeks of at most MaxDays days, on
\* three days of the week around the new year.
InitGrid ==
    /\ today \in DisplayTodays
    /\ tz = 0
    /\ now_tick = 0
    /\ activity \in [login : {"me"}, calendar : Calendars, nodes : {<<>>}]
    /\ InitDisplayCommon

\* The first day of every month of 2025, in both zones and at every tick,
\* with no week or one week of one day of any level.
InitLabels ==
    /\ today \in {from_ymd(2025, m, 1) : m \in 1..12}
    /\ tz \in TzOffsets
    /\ now_tick \in 0..(TicksPerDay - 1)
    /\ \E weeks \in {<<>>} \cup
            { << <<[ date |-> [y |-> 2025, m |-> 1, d |-> 1],
                    contribution_count |-> 1,
                    contribution_level |-> l ]>> >> : l \in Levels } :
          activity = [ login |-> "me",
                       calendar |-> [weeks |-> weeks, total_contributions |-> 1],
                       nodes |-> <<>> ]
    /\ InitDisplayCommon

InitDisplay == InitGrid \/ InitLabels

NextDisplay == GraphqlOk \/ Abort \/ ResetScreen \/ EmitReport

SpecDisplay == InitDisplay /\ [][NextDisplay]_vars

\* ------------------------------------------------ initial states: the run

RunCommit == [login |-> "me", at |-> today_end(from_ymd(2025, 1, 1), 0), date_kind |-> "ok"]

\* main after the client is built (line 670): the user has no repository or
\* one, with no commit or one, and an empty calendar or one of a single day.
Init ==
    /\ today = from_ymd(2025, 1, 1)
    /\ tz = 0
    /\ now_tick = 0
    /\ username = "me"
    /\ format \in {"text", "json"}
    /\ \E n \in 0..1 :
        /\ store \in [{full_name_of(Repo(i)) : i \in 1..n} -> {<<>>, <<RunCommit>>}]
        /\ server = [f \in {full_name_of(Repo(i)) : i \in 1..n} |-> "paged"]
        /\ \E weeks \in { <<>>,
                           << <<[ date |-> [y |-> 2025, m |-> 1, d |-> 1],
                                  contribution_count |-> 1,
                                  contribution_level |-> "FIRST_QUARTILE" ]>> >> } :
              activity = [ login |-> "me",
                           calendar |-> [weeks |-> weeks, total_contributions |-> 1],
                           nodes |-> [i \in 1..n |-> Repo(i)] ]
    /\ nodes = <<>>
    /\ repo_idx = 1
    /\ page = 1
    /\ all_commits = <<>>
    /\ since = format_utc(0)
    /\ until = format_utc(0)
    /\ repos_with_commits = <<>>
    /\ responses = <<>>
    /\ received = <<>>
    /\ audit = <<>>
    /\ user = ""
    /\ user_outcome = "none"
    /\ graphql_outcome = "none"
    /\ contribution_graph = empty_graph
    /\ anim_pc = "unspawned"
    /\ abort_requested = FALSE
    /\ frame_idx = 0
    /\ out = <<>>
    /\ NothingYet
    /\ pc = "spawn"

NextMain ==
    \/ Spawn
    \/ UserSendFailed \/ UserNotFound \/ UserBodyNotJson \/ UserFound
    \/ GraphqlSendFailed \/ GraphqlStatusNotSuccess \/ GraphqlBodyNotJson \/ GraphqlOk
    \/ Abort \/ ResetScreen \/ EmitJson \/ EmitReport \/ EmitError
    \/ EnableRawMode \/ EnableRawModeFailed
    \/ PollIgnored \/ PollFailed \/ PollQuit \/ PollQuitDisableFailed

NextAnim == AnimStart \/ AnimBanner \/ AnimLoading \/ AnimFrame \/ AnimWake

Next == NextMain \/ NextAgg \/ NextAnim

Spec == Init /\ [][Next]_vars

\* ------------------------------------------------- what the claims refer to

Count(seq, P(_)) == Cardinality({k \in 1..Len(seq) : P(seq[k])})

Counts(rec) == <<rec.today_commits, rec.week_commits, rec.month_commits>>

Finished == 1..Len(audit)

FaultFree(a) == \A k \in 1..Len(a.responses) : a.responses[k] \in {"page", "empty"}

\* The commits of a repository the server files within the requested window
\* [start of the month, end of today], as instants.
InWindow(log) ==
    SelectSeq(log, LAMBDA c : /\ month_start(today, tz) <= c.at
                              /\ c.at <= today_end(today, tz))

\* The commits a run without failures is served for a repository.
WouldFetch(f) ==
    LET all == InWindow(store[f])
        len == Min(per_page, ServerPageLen)
        p1 == SubSeq(all, 1, Min(len, Len(all)))
    IN IF server[f] = "paged"
       THEN SubSeq(all, 1, Min(page_cap * len, Len(all)))
       ELSE p1 \o p1 \o p1 \o p1 \o p1

IsUser(c) == c.login = username
Dated(c) == c.date_kind = "ok"
OfToday(c) == today_start(today, tz) <= c.at /\ c.at <= today_end(today, tz)
OfWeek(c) == week_start(today, tz) <= c.at /\ c.at <= today_end(today, tz)

\* The counts of a repository in a run without failures.
Expected(f) ==
    LET got == WouldFetch(f)
    IN << Count(got, LAMBDA c : IsUser(c) /\ Dated(c) /\ OfToday(c)),
          Count(got, LAMBDA c : IsUser(c) /\ Dated(c) /\ OfWeek(c)),
          Count(got, LAMBDA c : IsUser(c)) >>

\* The whole window was served: a paged server, no failure, and the last
\* response the empty page.
Complete(i) ==
    /\ server[full_name_of(nodes[i])] = "paged"
    /\ FaultFree(audit[i])
    /\ audit[i].responses[Len(audit[i].responses)] = "empty"

\* The work left: requests the current repository can still make, and those
\* of the repositories after it.
Remaining ==
    IF pc # "fetch" THEN 0
    ELSE (Len(nodes) - repo_idx) * (page_cap + 1) + (page_cap + 1 - page)

\* ----------------------------------------------------------------- claims

C1_Bounded ==
    /\ \A i \in Finished :
        LET r == audit[i].responses
        IN /\ Len(r) <= page_cap
           /\ \A k \in 1..Len(r) : r[k] = "empty" => k = Len(r)
           /\ (FaultFree(audit[i]) /\ server[full_name_of(nodes[i])] = "same_page"
                 /\ InWindow(store[full_name_of(nodes[i])]) # <<>>)
              => r = [k \in 1..page_cap |-> "page"]
    /\ pc = "fetch" =>
        /\ page = Len(responses) + 1
        /\ page <= page_cap
        /\ \A k \in 1..Len(responses) : responses[k] = "page"

\* C1: get_commits_with_dates terminates: every step of the aggregation
\* lowers the work left, no repository gets more than page_cap (5) requests,
\* a server that answers every request with a non-empty page gets exactly 5,
\* and no request follows a page of zero records.
C1_Terminates == [] C1_Bounded /\ [][Remaining' < Remaining /\ Remaining' >= 0]_vars

C1_Witness ==
    \E i \in Finished :
        /\ audit[i].responses = [k \in 1..page_cap |-> "page"]
        /\ server[full_name_of(nodes[i])] = "same_page"

\* C2 as stated: a repository whose listing returned a transport error
\* reports (0,0,0), the repositories without a failure report the counts of
\* a run without failures, and there is one record per repository.
C2_Original ==
    /\ \A i \in Finished :
        /\ (\E k \in 1..Len(audit[i].responses) : audit[i].responses[k] = "send_err")
           => Counts(repos_with_commits[i]) = <<0, 0, 0>>
        /\ FaultFree(audit[i])
           => Counts(repos_with_commits[i]) = Expected(full_name_of(nodes[i]))
    /\ pc = "returned" => Len(repos_with_commits) = Len(nodes)

\* C2, amended: a repository whose first request returned a transport error
\* reports (0,0,0) (one whose later request did reports the counts of the
\* pages before it), every repository without a failure reports the counts
\* of a run without failures, and get_data_from_graphql returns one record
\* per repository, in order.
C2_Isolated ==
    /\ Len(repos_with_commits) = Len(audit)
    /\ \A i \in Finished :
        /\ repos_with_commits[i].full_name = full_name_of(nodes[i])
        /\ audit[i].responses[1] = "send_err"
           => Counts(repos_with_commits[i]) = <<0, 0, 0>>
        /\ FaultFree(audit[i])
           => Counts(repos_with_commits[i]) = Expected(full_name_of(nodes[i]))
    /\ pc = "returned" => Len(repos_with_commits) = Len(nodes)

C2_Witness ==
    /\ pc = "returned"
    /\ Len(nodes) >= 2
    /\ audit[1].responses = <<"send_err">>
    /\ Expected(full_name_of(nodes[1])) # <<0, 0, 0>>
    /\ Counts(repos_with_commits[1]) = <<0, 0, 0>>
    /\ FaultFree(audit[2])
    /\ Counts(repos_with_commits[2]) # <<0, 0, 0>>

\* C5: week_commits is the number of the user's commits from 00:00 local of
\* the Monday of today's week to the end of today, whatever today is.
C5_WeekFromMonday ==
    \A i \in Finished :
        Complete(i) =>
            repos_with_commits[i].week_commits
                = Count(store[full_name_of(nodes[i])],
                        LAMBDA c : IsUser(c) /\ Dated(c) /\ OfWeek(c))

\* C6: month_commits is the number of returned commits attributed to the
\* user; when the whole window was served that is the number of the user's
\* commits of the repository within [start of the month, end of today]; and
\* a repository with no such commit (only other identities, no identity, or
\* dates outside the window) reports (0,0,0).
C6_MonthCount ==
    \A i \in Finished :
        LET f == full_name_of(nodes[i])
            rec == repos_with_commits[i]
            mine == Count(InWindow(store[f]), IsUser)
        IN /\ audit[i].ok =>
                rec.month_commits
                    = Count(audit[i].received,
                            LAMBDA r : r.has_author /\ r.login = username)
           /\ Complete(i) => rec.month_commits = mine
           /\ mine = 0 => Counts(rec) = <<0, 0, 0>>

C6_Witness ==
    \E i \in Finished :
        LET log == store[full_name_of(nodes[i])]
        IN /\ Complete(i)
           /\ Len(log) = 2
           /\ ~IsUser(log[1]) /\ OfToday(log[1])
           /\ IsUser(log[2]) /\ log[2].at < month_start(today, tz)
           /\ Counts(repos_with_commits[i]) = <<0, 0, 0>>

\* C7: a commit of the user whose authoring timestamp is missing or does
\* not parse counts in month_commits and in neither today_commits nor
\* week_commits; the aggregation still succeeds and the other commits are
\* bucketed as they are without it.
C7_BadTimestamp ==
    \A i \in Finished :
        Complete(i) =>
            LET got == InWindow(store[full_name_of(nodes[i])])
                bad == Count(got, LAMBDA c : IsUser(c) /\ ~Dated(c))
                rec == repos_with_commits[i]
            IN /\ audit[i].ok
               /\ rec.month_commits = bad + Count(got, LAMBDA c : IsUser(c) /\ Dated(c))
               /\ rec.today_commits = Count(got, LAMBDA c : IsUser(c) /\ Dated(c) /\ OfToday(c))
               /\ rec.week_commits = Count(got, LAMBDA c : IsUser(c) /\ Dated(c) /\ OfWeek(c))

C7_Witness ==
    \E i \in Finished :
        LET log == store[full_name_of(nodes[i])]
        IN /\ Complete(i)
           /\ Len(log) = 2
           /\ IsUser(log[1]) /\ ~Dated(log[1]) /\ OfToday(log[1])
           /\ IsUser(log[2]) /\ Dated(log[2]) /\ OfToday(log[2])
           /\ Counts(repos_with_commits[i]) = <<1, 1, 2>>

\* ----------------------------------------- claims on the display and on main

\* The positions of the day cells of the weeks, and the sum of their counts.
Positions(weeks) ==
    {<<w, d>> : w \in 1..Len(weeks), d \in 1..7} \cap
        {x \in (1..Len(weeks)) \X (1..7) : x[2] <= Len(weeks[x[1]].days)}

RECURSIVE SumOf(_, _)
SumOf(S, weeks) ==
    IF S = {} THEN 0
    ELSE LET x == CHOOSE x \in S : TRUE
         IN weeks[x[1]].days[x[2]].count + SumOf(S \ {x}, weeks)

\* The cells whose date is a date of the calendar, within [lo, hi].
DatedIn(weeks, lo, hi) ==
    { x \in Positions(weeks) :
        LET s == weeks[x[1]].days[x[2]].date
        IN /\ ValidDate(s)
           /\ lo <= from_ymd(s.y, s.m, s.d)
           /\ from_ymd(s.y, s.m, s.d) <= hi }

\* The Monday on or before today (day 0 is a Monday).
Monday == CHOOSE d \in (today - 6)..today : d % 7 = 0

Forever == from_ymd(2026, 12, 31)

Displayed == Written("report") = 1

\* C3: once get_stats has returned and the animation is aborted (line 679,
\* the next statement) the animation writes nothing more, so its writes all
\* come before the screen reset, and the reset comes before any report
\* line or error message.
C3_SingleWriter ==
    /\ aborted_at >= 0 => \A k \in (aborted_at + 1)..Len(out) : out[k] # "anim"
    /\ \A j \in 1..Len(out) : \A k \in 1..Len(out) :
        (out[j] = "reset" /\ out[k] \in {"report", "json", "error", "prompt"}) => j < k

\* get_stats has returned to main.
Returned == pc \notin {"spawn", "get_user", "graphql", "fetch"}

\* C4: get_stats returns a report exactly when the user lookup succeeds; a
\* failed lookup ends in one error message, exit status 1 and no report; a
\* lookup that succeeds ends in one report whatever the activity request
\* did, a failed activity request giving the empty graph and no repository.
C4_ReportIffUser ==
    /\ Returned => (stats_result.ok <=> user_outcome = "ok")
    /\ pc \in {"raw", "poll", "done", "exited"} =>
        IF user_outcome = "ok"
        THEN /\ Written("report") + Written("json") = 1
             /\ Written("error") = 0
             /\ pc # "exited"
        ELSE /\ Written("error") = 1
             /\ Written("report") + Written("json") = 0
             /\ exit_code = 1
             /\ pc = "exited"
    /\ (Returned /\ user_outcome = "ok"
          /\ graphql_outcome \in {"send_err", "bad_status", "bad_body"})
       => /\ stats_result.contribution_graph.weeks = <<>>
          /\ stats_result.contribution_graph.total_contributions = 0
          /\ stats_result.recent_repos = <<>>

C4_Witness ==
    /\ pc = "raw"
    /\ user_outcome = "ok"
    /\ graphql_outcome = "bad_body"
    /\ activity.calendar.weeks # <<>>
    /\ Written("report") = 1
    /\ stats_result.contribution_graph = empty_graph

\* C8: last_week is the sum over the cells dated on the seven days before
\* the Monday of today's week, this_week the sum over the cells dated on or
\* after that Monday, so a cell dated on or after Monday - 7 is added to
\* exactly one of the two.
C8_WeeksContiguous ==
    Displayed =>
        LET weeks == stats_result.contribution_graph.weeks
        IN /\ this_week_start(today) = Monday
           /\ buckets.last_week = SumOf(DatedIn(weeks, Monday - 7, Monday - 1), weeks)
           /\ buckets.this_week = SumOf(DatedIn(weeks, Monday, Forever), weeks)
           /\ buckets.this_week + buckets.last_week
                = SumOf(DatedIn(weeks, Monday - 7, Forever), weeks)

C8_Witness ==
    /\ Displayed
    /\ today = from_ymd(2025, 1, 1)
    /\ Len(stats_result.contribution_graph.weeks) = 1
    /\ LET days == stats_result.contribution_graph.weeks[1].days
       IN /\ Len(days) = 2
          /\ days[1].date = [y |-> 2024, m |-> 12, d |-> 29] /\ days[1].count = 2
          /\ days[2].date = [y |-> 2024, m |-> 12, d |-> 30] /\ days[2].count = 1
    /\ buckets.last_week = 2
    /\ buckets.this_week = 1

\* C9: over a grid that is not empty the labels are the twelve months, each
\* once, from the month after the current one to the current one; in
\* January they are Feb, Mar, ..., Dec, Jan.
C9_MonthLabels ==
    (Displayed /\ stats_result.contribution_graph.weeks # <<>>) =>
        LET m == current_month(today, now_tick, tz)
        IN /\ Len(labels) = 12
           /\ \A i \in 0..11 : labels[i + 1] = months[((m + 1 + i) % 12) + 1]
           /\ \A k \in 1..12 : Cardinality({j \in 1..12 : labels[j] = months[k]}) = 1
           /\ labels[12] = months[m + 1]
           /\ m = 0 => labels = << "Feb", "Mar", "Apr", "May", "Jun", "Jul",
                                   "Aug", "Sep", "Oct", "Nov", "Dec", "Jan" >>

C9_Witness ==
    /\ Displayed
    /\ stats_result.contribution_graph.weeks # <<>>
    /\ current_month(today, now_tick, tz) = 0
    /\ labels = << "Feb", "Mar", "Apr", "May", "Jun", "Jul",
                   "Aug", "Sep", "Oct", "Nov", "Dec", "Jan" >>

GraphBuilt == graphql_outcome = "ok"

\* C10 as stated: the grid holds no day whose date does not parse, and the
\* other days in the provider's order.
C10_Original ==
    GraphBuilt =>
        LET raw == activity.calendar.weeks
        IN contribution_graph.weeks =
            [ w \in 1..Len(raw) |->
                LET kept == SelectSeq(raw[w], LAMBDA d : ValidDate(d.date))
                IN [days |-> [i \in 1..Len(kept) |-> build_day(kept[i])]] ]

\* C10, amended: a day whose date does not parse stays in the grid, at the
\* provider's position and with its date string and count, and is printed;
\* the Date Bucketer skips it, so the aggregates are those of the days whose
\* date parses; the run goes on to the report.
C10_BadDateKept ==
    /\ GraphBuilt =>
        LET raw == activity.calendar.weeks
            weeks == contribution_graph.weeks
        IN /\ Len(weeks) = Len(raw)
           /\ \A w \in 1..Len(raw) :
                /\ Len(weeks[w].days) = Len(raw[w])
                /\ \A d \in 1..Len(raw[w]) :
                    /\ weeks[w].days[d].date = raw[w][d].date
                    /\ weeks[w].days[d].count = raw[w][d].contribution_count
                    /\ weeks[w].days[d].level \in 0..4
    /\ pc \in {"reset", "emit", "raw"} =>
        /\ stats_result.ok
        /\ stats_result.contribution_graph = contribution_graph
    /\ Displayed =>
        LET weeks == contribution_graph.weeks
        IN /\ \A x \in Positions(weeks) :
                heatmap[x[2] - 1][x[1]] = weeks[x[1]].days[x[2]].level
           /\ buckets.this_week = SumOf(DatedIn(weeks, Monday, Forever), weeks)
           /\ buckets.last_week = SumOf(DatedIn(weeks, Monday - 7, Monday - 1), weeks)
           /\ buckets.this_month
                = SumOf(DatedIn(weeks, from_ymd(year(today), month(today), 1), Forever), weeks)
           /\ buckets.this_year
                = SumOf(DatedIn(weeks, from_ymd(year(today), 1, 1), Forever), weeks)

C10_Witness ==
    /\ Displayed
    /\ today = from_ymd(2025, 1, 1)
    /\ Len(activity.calendar.weeks) = 2
    /\ Len(activity.calendar.weeks[1]) = 2
    /\ ~ValidDate(activity.calendar.weeks[1][1].date)
    /\ activity.calendar.weeks[1][2].date = [y |-> 2024, m |-> 12, d |-> 30]
    /\ Len(activity.calendar.weeks[2]) = 1
    /\ activity.calendar.weeks[2][1].date = [y |-> 2025, m |-> 1, d |-> 1]
    /\ activity.calendar.weeks[2][1].contribution_count = 2
    /\ contribution_graph.weeks[1].days[1].date = [y |-> 2025, m |-> 2, d |-> 30]
    /\ buckets = [ today |-> 2, this_week |-> 3, last_week |-> 0,
                   this_month |-> 2, this_year |-> 2 ]

\* C11: over a grid of zero weeks, whatever today is, no month label is
\* printed, the five aggregates are 0 and the comparison reads "same as last
\* week".
C11_EmptyGrid ==
    (Displayed /\ stats_result.contribution_graph.weeks = <<>>) =>
        /\ labels = <<>>
        /\ buckets.today = 0
        /\ buckets.this_week = 0
        /\ buckets.last_week = 0
        /\ buckets.this_month = 0
        /\ buckets.this_year = 0
        /\ comparison = "same as last week"

C11_Witness ==
    /\ Displayed
    /\ stats_result.ok
    /\ stats_result.contribution_graph.weeks = <<>>
    /\ today = from_ymd(2025, 1, 5)
    /\ labels = <<>>
    /\ comparison = "same as last week"

\* ------------------------------------------------ claims on failing pages

Failures == {"send_err", "bad_status", "bad_body"}

\* The response that ended the aggregation of the i-th repository.
LastResponse(i) == audit[i].responses[Len(audit[i].responses)]

\* The counts of the records of the pages received: those attributed to the
\* user, and among them those whose timestamp parses and lies in today or in
\* the week.
CountsOf(records) ==
    LET mine == SelectSeq(records, LAMBDA r : r.has_author /\ r.login = username)
        at(r) == parse_from_rfc3339(r.date)
    IN << Count(mine, LAMBDA r : /\ r.has_date
                                 /\ at(r).ok
                                 /\ today_start(today, tz) <= at(r).at
                                 /\ at(r).at <= today_end(today, tz)),
          Count(mine, LAMBDA r : /\ r.has_date
                                 /\ at(r).ok
                                 /\ week_start(today, tz) <= at(r).at
                                 /\ at(r).at <= today_end(today, tz)),
          Len(mine) >>

\* Every request of the i-th repository before the last was answered with a
\* page of records.
PagesThenLast(i) ==
    \A k \in 1..(Len(audit[i].responses) - 1) : audit[i].responses[k] = "page"

\* C12 as stated: when page k fails in any of the three ways after k - 1
\* pages, no further page is requested, the repository reports the counts of
\* the commits of pages 1..k-1, and the run goes on to one record per
\* repository.
C12_Original ==
    /\ \A i \in Finished :
        /\ \A k \in 1..Len(audit[i].responses) :
               audit[i].responses[k] \in Failures => k = Len(audit[i].responses)
        /\ LastResponse(i) \in Failures =>
               /\ PagesThenLast(i)
               /\ Counts(repos_with_commits[i]) = CountsOf(audit[i].received)
    /\ Len(repos_with_commits) = Len(audit)
    /\ pc = "returned" => Len(repos_with_commits) = Len(nodes)

\* C12, amended: a failure of page k is the last response of the repository;
\* after a transport error or a status that is no success the repository
\* reports the counts of the commits of pages 1..k-1, after a body that does
\* not parse it reports (0,0,0) whatever those pages held; in every case the
\* repository gets its record and the run goes on to one record per
\* repository.
C12_FailedPage ==
    /\ \A i \in Finished :
        /\ \A k \in 1..Len(audit[i].responses) :
               audit[i].responses[k] \in Failures => k = Len(audit[i].responses)
        /\ LastResponse(i) \in Failures => PagesThenLast(i)
        /\ LastResponse(i) \in {"send_err", "bad_status"} =>
               Counts(repos_with_commits[i]) = CountsOf(audit[i].received)
        /\ LastResponse(i) = "bad_body" =>
               Counts(repos_with_commits[i]) = <<0, 0, 0>>
        /\ repos_with_commits[i].full_name = full_name_of(nodes[i])
    /\ Len(repos_with_commits) = Len(audit)
    /\ pc = "fetch" => Len(audit) = repo_idx - 1
    /\ pc = "returned" => (stats_result.ok /\ Len(stats_result.recent_repos) = Len(nodes))

C12_Witness ==
    /\ pc = "returned"
    /\ Len(nodes) = 2
    /\ audit[1].responses = <<"page", "bad_status">>
    /\ Counts(repos_with_commits[1]) = <<1, 1, 1>>
    /\ audit[2].responses = <<"page", "bad_body">>
    /\ CountsOf(audit[2].received) = <<1, 1, 1>>
    /\ Counts(repos_with_commits[2]) = <<0, 0, 0>>

\* C13: in every repository record today_commits <= week_commits <=
\* month_commits, whatever today is, whatever the authoring timestamps of the
\* fetched commits are (missing, malformed, outside the requested window) and
\* however the requests ended.
C13_CountsOrdered ==
    /\ \A i \in 1..Len(repos_with_commits) :
        /\ 0 <= repos_with_commits[i].today_commits
        /\ repos_with_commits[i].today_commits <= repos_with_commits[i].week_commits
        /\ repos_with_commits[i].week_commits <= repos_with_commits[i].month_commits
    /\ stats_result.ok =>
        \A i \in 1..Len(stats_result.recent_repos) :
            /\ stats_result.recent_repos[i].today_commits
                 <= stats_result.recent_repos[i].week_commits
            /\ stats_result.recent_repos[i].week_commits
                 <= stats_result.recent_repos[i].month_commits

\* A commit authored on the Monday and filed on the Wednesday, the first of
\* the month, counts in the week and the month; one of today without a
\* timestamp that parses counts in the month alone.
C13_Witness ==
    /\ pc = "returned"
    /\ today = from_ymd(2025, 1, 1)
    /\ Len(audit) = 1
    /\ audit[1].responses = <<"page", "page", "empty">>
    /\ \E k \in 1..2 :
          /\ store[full_name_of(nodes[1])][k].date_kind = "earlier"
          /\ store[full_name_of(nodes[1])][3 - k].date_kind = "malformed"
    /\ Counts(repos_with_commits[1]) = <<0, 1, 2>>

\* ----------------------------------------------- claims on the key loop

\* Raw mode was enabled and main has returned.
EndedAfterPrompt == pc = "done" /\ Written("prompt") = 1

\* C14: in text format, once raw mode is enabled, every way out of the key
\* loop (q, Q, Ctrl+C, Esc, or an error of event::poll or event::read) runs
\* disable_raw_mode before main returns, leaving the terminal out of raw
\* mode; and the loop is left on those key presses alone, every other key
\* and every event that is no press being ignored.
C14_RawModeRestored ==
    /\ EndedAfterPrompt =>
        /\ disable_called
        /\ exit_code = 0 => ~raw_mode
        /\ quits(last_event) \/ last_event = IoError
    /\ pc = "poll" =>
        /\ raw_mode
        /\ ~disable_called
        /\ ~quits(last_event)
    /\ raw_mode => format # "json"

====
